---- MODULE Spec2Model ----
(***************************************************************************)
(* RecursiveFilter (lib/improver/nbhood/recursive_filter.py).              *)
(*                                                                         *)
(* A filter object is constructed once (__init__) and then process() is    *)
(* called on a cube.  process() builds the two padded alpha fields         *)
(* (set_alphas), then pads, filters (run_recursion: forward-x, backward-x, *)
(* forward-y, backward-y, repeated `iterations` times) and unpads every    *)
(* 2D (y, x) slice of the cube, and merges the slices.                     *)
(*                                                                         *)
(* Python's None is the empty tuple; a scalar argument v that may be None  *)
(* is the 1-tuple <<v>>; a 2D array is a tuple of rows, indexed from 1     *)
(* (numpy index i is index i+1 here).                                      *)
(***************************************************************************)
EXTENDS Integers, Sequences, FiniteSets, TLC

VARIABLES
    ctor,           \* "new" | "ok" | "error": outcome of __init__
    self,           \* the attributes stored by __init__
    pc,             \* position inside process()
    cube,           \* process() argument: the sequence of 2D slices
    alphas_x_arg,   \* process() argument alphas_x (None or a 2D array)
    alphas_y_arg,   \* process() argument alphas_y (None or a 2D array)
    alphas_x,       \* local alphas_x after set_alphas (padded)
    alphas_y,       \* local alphas_y after set_alphas (padded)
    k,              \* index of the slice the loop is at (1-based)
    output,         \* run_recursion: the array being filtered in place
    it,             \* run_recursion: completed passes of the for loop
    recursed_cube,  \* the CubeList of filtered, unpadded slices
    result,         \* what process() returned (None before it returns)
    err,            \* the exception raised (kind "none" when none)
    halo,           \* the fill policy of the halo collaborator in this call
    hist            \* history record: counters and logs used by the properties

vars == <<ctor, self, pc, cube, alphas_x_arg, alphas_y_arg, alphas_x, alphas_y,
          k, output, it, recursed_cube, result, err, halo, hist>>

-----------------------------------------------------------------------------
(* Bounds of the model *)

MaxIter == 2

MaxSlices == 2

MaxEdge == 1

FracBits == 5

-----------------------------------------------------------------------------
(* Numbers.  A float is a fixed-point number: the integer n stands for      *)
(* n / Scale, and every product is rounded to the nearest representable    *)
(* value, as each float operation rounds its result.                       *)

None == <<>>

Scale == 2 ^ FracBits

Zero == 0

Half == Scale \div 2

One == Scale

FAdd(p, q) == p + q

FSub(p, q) == p - q

FMul(p, q) == (p * q + Scale \div 2) \div Scale

-----------------------------------------------------------------------------
(* 2D arrays *)

Shape(a) == <<Len(a), IF Len(a) = 0 THEN 0 ELSE Len(a[1])>>

Full(shape, v) == [i \in 1..shape[1] |-> [j \in 1..shape[2] |-> v]]

Impulse(shape, r, c) ==
    [i \in 1..shape[1] |-> [j \in 1..shape[2] |->
        IF i = r /\ j = c THEN One ELSE Zero]]

-----------------------------------------------------------------------------
(* The four directional sweeps (static methods of RecursiveFilter) *)

\* variant: the two weights exchanged
BlendSwapped(alpha, a, b) == FAdd(FMul(alpha, a), FMul(FSub(One, alpha), b))

\* (1. - alpha) * a + alpha * b, the recurrence at one cell
Blend(alpha, a, b) == FAdd(FMul(FSub(One, alpha), a), FMul(alpha, b))

\* the row (1. - alphas[i, :]) * grid[i, :] + alphas[i, :] * grid[p, :],
\* from column j on
RECURSIVE BlendRow(_, _, _, _)
BlendRow(arow, grow, prow, j) ==
    IF j > Len(grow) THEN <<>>
    ELSE <<Blend(arow[j], grow[j], prow[j])>> \o BlendRow(arow, grow, prow, j + 1)

\* grid after grid[i, :] = (1. - alphas[i, :]) * grid[i, :] + alphas[i, :] * grid[p, :]
RowUpdate(grid, alphas, i, p) ==
    [grid EXCEPT ![i] = BlendRow(alphas[i], grid[i], grid[p], 1)]

\* the rows r.. of the grid after
\* grid[:, i] = (1. - alphas[:, i]) * grid[:, i] + alphas[:, i] * grid[:, p]
RECURSIVE ColUpdateRows(_, _, _, _, _)
ColUpdateRows(grid, alphas, i, p, r) ==
    IF r > Len(grid) THEN <<>>
    ELSE <<[grid[r] EXCEPT ![i] = Blend(alphas[r][i], grid[r][i], grid[r][p])]>>
         \o ColUpdateRows(grid, alphas, i, p, r + 1)

ColUpdate(grid, alphas, i, p) == ColUpdateRows(grid, alphas, i, p, 1)

\* for i in range(1, x_lim): grid[i, :] = ...grid[i-1, :]
RECURSIVE forward_x_loop(_, _, _)
forward_x_loop(grid, alphas, i) ==
    IF i > Shape(grid)[1] THEN grid
    ELSE forward_x_loop(RowUpdate(grid, alphas, i, i - 1), alphas, i + 1)

\* variant: the loop started one row late, range(2, x_lim)
recurse_forward_x_late(grid, alphas) == forward_x_loop(grid, alphas, 3)

recurse_forward_x(grid, alphas) == forward_x_loop(grid, alphas, 2)

\* for i in range(x_lim-2, -1, -1): grid[i, :] = ...grid[i+1, :]
RECURSIVE backwards_x_loop(_, _, _)
backwards_x_loop(grid, alphas, i) ==
    IF i < 1 THEN grid
    ELSE backwards_x_loop(RowUpdate(grid, alphas, i, i + 1), alphas, i - 1)

recurse_backwards_x(grid, alphas) ==
    backwards_x_loop(grid, alphas, Shape(grid)[1] - 1)

\* for i in range(1, y_lim): grid[:, i] = ...grid[:, i-1]
RECURSIVE forward_y_loop(_, _, _)
forward_y_loop(grid, alphas, i) ==
    IF i > Shape(grid)[2] THEN grid
    ELSE forward_y_loop(ColUpdate(grid, alphas, i, i - 1), alphas, i + 1)

recurse_forward_y(grid, alphas) == forward_y_loop(grid, alphas, 2)

\* for i in range(y_lim-2, -1, -1): grid[:, i] = ...grid[:, i+1]
RECURSIVE backwards_y_loop(_, _, _)
backwards_y_loop(grid, alphas, i) ==
    IF i < 1 THEN grid
    ELSE backwards_y_loop(ColUpdate(grid, alphas, i, i + 1), alphas, i - 1)

recurse_backwards_y(grid, alphas) ==
    backwards_y_loop(grid, alphas, Shape(grid)[2] - 1)

-----------------------------------------------------------------------------
(* The halo collaborator (SquareNeighbourhood, improver.nbhood.square_kernel). *)
(* Its code is outside this file; it is modelled from its interface: the      *)
(* padded shape grows by the width on every horizontal edge, the original     *)
(* region is kept, and removing the halo inverts the shape change.  The value *)
(* that fills the halo is the collaborator's policy; two policies are         *)
(* modelled, a constant zero and a value taken from the padded array.  A      *)
(* negative width is refused.                                                 *)

HaloPolicies == { "zero", "corner" }

halo_fill(policy, c) == IF policy = "zero" THEN Zero ELSE c[1][1]

pad_cube_with_halo(c, width_x, width_y, policy) ==
    LET h == Shape(c)[1]
        w == Shape(c)[2]
        fill == halo_fill(policy, c)
    IN [i \in 1..(h + 2 * width_y) |-> [j \in 1..(w + 2 * width_x) |->
           IF /\ i > width_y /\ i <= width_y + h
              /\ j > width_x /\ j <= width_x + w
           THEN c[i - width_y][j - width_x]
           ELSE fill]]

remove_halo_from_cube(c, width_x, width_y) ==
    LET h == Shape(c)[1]
        w == Shape(c)[2]
    IN [i \in 1..(h - 2 * width_y) |-> [j \in 1..(w - 2 * width_x) |->
           c[i + width_y][j + width_x]]]

halo_width_ok(width) == width >= 0

-----------------------------------------------------------------------------
(* Exceptions *)

NoError == [kind |-> "none", alphas_shape |-> None, data_shape |-> None]

Raise(kind) == [kind |-> kind, alphas_shape |-> None, data_shape |-> None]

\* emsg.format(alphas_cube.data.shape, cube.data.shape)
RaiseShape(a_shape, d_shape) ==
    [kind |-> "ShapeMismatch", alphas_shape |-> a_shape, data_shape |-> d_shape]

-----------------------------------------------------------------------------
(* __init__ validation *)

\* variant: the upper bound taken as closed, 0 <= alpha <= 1
alpha_invalid_closed(alpha) ==
    alpha # None /\ ~(Zero <= alpha[1] /\ alpha[1] <= One)

\* not 0 <= alpha < 1
alpha_invalid(alpha) ==
    alpha # None /\ ~(Zero <= alpha[1] /\ alpha[1] < One)

\* variant: zero iterations let through, not iterations >= 0
iterations_invalid_zero(iterations) ==
    iterations # None /\ ~(iterations[1] >= 0)

\* not iterations >= 1
iterations_invalid(iterations) ==
    iterations # None /\ ~(iterations[1] >= 1)

init_raises(alpha_x, alpha_y, iterations, edge_width) ==
    \/ alpha_invalid(alpha_x)
    \/ alpha_invalid(alpha_y)
    \/ iterations_invalid(iterations)

-----------------------------------------------------------------------------
(* set_alphas: returns [kind, value, error] *)

\* variant: a missing alpha taken as zero instead of raising
set_alphas_default(cube_format, alpha, alphas_cube, edge_width, policy) ==
    LET ac == IF alphas_cube = None
              THEN Full(Shape(cube_format),
                        IF alpha = None THEN Zero ELSE FMul(One, alpha[1]))
              ELSE alphas_cube
    IN IF Shape(ac) # Shape(cube_format)
       THEN [kind |-> "raise", value |-> None,
             error |-> RaiseShape(Shape(ac), Shape(cube_format))]
       ELSE IF ~halo_width_ok(edge_width)
       THEN [kind |-> "raise", value |-> None, error |-> Raise("HaloError")]
       ELSE [kind |-> "ok",
             value |-> pad_cube_with_halo(ac, edge_width, edge_width, policy),
             error |-> NoError]

\* variant: the two shapes exchanged in the error report
set_alphas_swapped(cube_format, alpha, alphas_cube, edge_width, policy) ==
    IF alphas_cube = None /\ alpha = None
    THEN [kind |-> "raise", value |-> None, error |-> Raise("MissingAlpha")]
    ELSE
      LET ac == IF alphas_cube = None
                THEN Full(Shape(cube_format), FMul(One, alpha[1]))
                ELSE alphas_cube
      IN IF Shape(ac) # Shape(cube_format)
         THEN [kind |-> "raise", value |-> None,
               error |-> RaiseShape(Shape(cube_format), Shape(ac))]
         ELSE IF ~halo_width_ok(edge_width)
         THEN [kind |-> "raise", value |-> None, error |-> Raise("HaloError")]
         ELSE [kind |-> "ok",
               value |-> pad_cube_with_halo(ac, edge_width, edge_width, policy),
               error |-> NoError]

set_alphas(cube_format, alpha, alphas_cube, edge_width, policy) ==
    IF alphas_cube = None /\ alpha = None
    THEN [kind |-> "raise", value |-> None, error |-> Raise("MissingAlpha")]
    ELSE
      LET ac == IF alphas_cube = None
                THEN Full(Shape(cube_format), FMul(One, alpha[1]))
                ELSE alphas_cube
      IN IF Shape(ac) # Shape(cube_format)
         THEN [kind |-> "raise", value |-> None,
               error |-> RaiseShape(Shape(ac), Shape(cube_format))]
         ELSE IF ~halo_width_ok(edge_width)
         THEN [kind |-> "raise", value |-> None, error |-> Raise("HaloError")]
         ELSE [kind |-> "ok",
               value |-> pad_cube_with_halo(ac, edge_width, edge_width, policy),
               error |-> NoError]

-----------------------------------------------------------------------------
(* Inputs the model draws from *)

DataShape == <<2, 3>>

WrongShape == <<3, 3>>

\* slices of the input cube: a single impulse and a generic field
DataGrids ==
    << Impulse(DataShape, 2, 2),
       <<<<One, Zero, Half>>, <<Zero, One, One>>>> >>

\* a cube of n slices, the two grids alternating from the first slice on
Cube(n, first) == [i \in 1..n |-> DataGrids[((i + first) % Len(DataGrids)) + 1]]

Cubes == { Cube(n, first) : n \in 1..MaxSlices, first \in 1..Len(DataGrids) }

\* caller-supplied alpha fields: absent, valid and varying, out of range,
\* and of another shape than the data
VaryingAlphas == <<<<Half, Zero, Half>>, <<Zero, Half, Zero>>>>

OutOfRangeAlphas == <<<<One, Zero, Zero>>, <<Zero, -Half, Zero>>>>

AlphaArgs == { None, VaryingAlphas, OutOfRangeAlphas, Full(WrongShape, Half) }

ScalarAlphas == { None, <<-Half>>, <<Zero>>, <<Half>>, <<One>> }

IterationArgs == { None } \cup { <<n>> : n \in 0..MaxIter }

EdgeWidths == (-1)..MaxEdge

-----------------------------------------------------------------------------
(* State *)

\* an object on which __init__ has stored no attribute
Unset == <<>>

\* init_args: the arguments __init__ was called with; npad: slices padded;
\* nsweep: sweeps run; nset: calls of set_alphas; ops: the per-slice
\* operations in the order they were performed
NoHist == [init_args |-> None, npad |-> 0, nsweep |-> 0, nset |-> 0,
           ops |-> <<>>]

Init ==
    /\ ctor = "new"
    /\ self = Unset
    /\ pc = "idle"
    /\ cube = <<>>
    /\ alphas_x_arg = None
    /\ alphas_y_arg = None
    /\ alphas_x = None
    /\ alphas_y = None
    /\ k = 0
    /\ output = None
    /\ it = 0
    /\ recursed_cube = <<>>
    /\ result = None
    /\ err = NoError
    /\ halo = "zero"
    /\ hist = NoHist

process_vars == <<pc, cube, alphas_x_arg, alphas_y_arg, alphas_x, alphas_y,
                  k, output, it, recursed_cube, result, halo>>

\* RecursiveFilter(alpha_x, alpha_y, iterations, edge_width)
Construct ==
    /\ ctor = "new"
    /\ \E ax \in ScalarAlphas, ay \in ScalarAlphas,
          n \in IterationArgs, ew \in EdgeWidths :
          /\ IF init_raises(ax, ay, n, ew)
             THEN /\ ctor' = "error"
                  /\ err' = Raise("ValueError")
                  /\ self' = self
             ELSE /\ ctor' = "ok"
                  /\ err' = err
                  /\ self' = [alpha_x |-> ax, alpha_y |-> ay,
                              iterations |-> n, edge_width |-> ew]
          /\ hist' = [hist EXCEPT !.init_args =
                          [alpha_x |-> ax, alpha_y |-> ay, iterations |-> n,
                           edge_width |-> ew]]
    /\ UNCHANGED process_vars

\* plugin.process(cube, alphas_x, alphas_y) is entered;
\* cube_format = next(cube.slices([y, x])) is cube[1]
Process ==
    /\ ctor = "ok"
    /\ pc = "idle"
    /\ \E c \in Cubes, ax \in AlphaArgs, ay \in AlphaArgs :
          /\ cube' = c
          /\ alphas_x_arg' = ax
          /\ alphas_y_arg' = ay
    /\ halo' \in IF self.edge_width > 0 THEN HaloPolicies ELSE { "zero" }
    /\ pc' = "set_alphas_x"
    /\ UNCHANGED <<ctor, self, alphas_x, alphas_y, k, output, it,
                   recursed_cube, result, err, hist>>

\* alphas_x = self.set_alphas(cube_format, self.alpha_x, alphas_x)
SetAlphasX ==
    /\ pc = "set_alphas_x"
    /\ LET r == set_alphas(cube[1], self.alpha_x, alphas_x_arg,
                          self.edge_width, halo)
       IN IF r.kind = "ok"
             THEN /\ alphas_x' = r.value
                  /\ pc' = "set_alphas_y"
                  /\ err' = err
                  /\ hist' = [hist EXCEPT !.nset = @ + 1]
             ELSE /\ alphas_x' = alphas_x
                  /\ pc' = "raised"
                  /\ err' = r.error
                  /\ hist' = [hist EXCEPT !.nset = @ + 1]
    /\ UNCHANGED <<ctor, self, cube, alphas_x_arg, alphas_y_arg, alphas_y, k,
                   output, it, recursed_cube, result, halo>>

\* alphas_y = self.set_alphas(cube_format, self.alpha_y, alphas_y);
\* recursed_cube = iris.cube.CubeList()
SetAlphasY ==
    /\ pc = "set_alphas_y"
    /\ LET r == set_alphas(cube[1], self.alpha_y, alphas_y_arg,
                          self.edge_width, halo)
       IN IF r.kind = "ok"
             THEN /\ alphas_y' = r.value
                  /\ pc' = "loop"
                  /\ k' = 1
                  /\ err' = err
                  /\ hist' = [hist EXCEPT !.nset = @ + 1]
             ELSE /\ alphas_y' = alphas_y
                  /\ pc' = "raised"
                  /\ k' = k
                  /\ err' = r.error
                  /\ hist' = [hist EXCEPT !.nset = @ + 1]
    /\ UNCHANGED <<ctor, self, cube, alphas_x_arg, alphas_y_arg, alphas_x,
                   output, it, recursed_cube, result, halo>>

\* for output in cube.slices([y, x]): padded_cube = pad_cube_with_halo(...);
\* run_recursion is entered: output = cube.data
PadSlice ==
    /\ pc = "loop"
    /\ k <= Len(cube)
    /\ IF ~halo_width_ok(self.edge_width)
       THEN /\ pc' = "raised"
            /\ err' = Raise("HaloError")
            /\ UNCHANGED <<output, it, hist>>
       ELSE LET padded_cube == pad_cube_with_halo(cube[k], self.edge_width,
                                                  self.edge_width, halo)
            IN /\ output' = padded_cube
               /\ it' = 0
               /\ pc' = "range"
               /\ err' = err
               /\ hist' = [hist EXCEPT !.npad = @ + 1,
                                       !.ops = Append(@, <<"pad", k>>)]
    /\ UNCHANGED <<ctor, self, cube, alphas_x_arg, alphas_y_arg, alphas_x,
                   alphas_y, k, recursed_cube, result, halo>>

\* for _ in range(iterations): range(None) raises TypeError
RunRange ==
    /\ pc = "range"
    /\ IF self.iterations = None
       THEN /\ pc' = "raised"
            /\ err' = Raise("TypeError")
            /\ hist' = hist
       ELSE IF it < self.iterations[1]
       THEN /\ pc' = "forward_x"
            /\ err' = err
            /\ hist' = hist
       ELSE \* return cube
            /\ pc' = "unpad"
            /\ err' = err
            /\ hist' = [hist EXCEPT !.ops = Append(@, <<"run", k>>)]
    /\ UNCHANGED <<ctor, self, cube, alphas_x_arg, alphas_y_arg, alphas_x,
                   alphas_y, k, output, it, recursed_cube, result, halo>>

Swept == [hist EXCEPT !.nsweep = @ + 1]

\* output = RecursiveFilter.recurse_forward_x(output, alphas_x.data)
RecurseForwardX ==
    /\ pc = "forward_x"
    /\ output' = recurse_forward_x(output, alphas_x)
    /\ pc' = "backwards_x"
    /\ hist' = Swept
    /\ UNCHANGED <<ctor, self, cube, alphas_x_arg, alphas_y_arg, alphas_x,
                   alphas_y, k, it, recursed_cube, result, err, halo>>

\* output = RecursiveFilter.recurse_backwards_x(output, alphas_x.data)
RecurseBackwardsX ==
    /\ pc = "backwards_x"
    /\ output' = recurse_backwards_x(output, alphas_x)
    /\ pc' = "forward_y"
    /\ hist' = Swept
    /\ UNCHANGED <<ctor, self, cube, alphas_x_arg, alphas_y_arg, alphas_x,
                   alphas_y, k, it, recursed_cube, result, err, halo>>

\* output = RecursiveFilter.recurse_forward_y(output, alphas_y.data)
RecurseForwardY ==
    /\ pc = "forward_y"
    /\ output' = recurse_forward_y(output, alphas_y)
    /\ pc' = "backwards_y"
    /\ hist' = Swept
    /\ UNCHANGED <<ctor, self, cube, alphas_x_arg, alphas_y_arg, alphas_x,
                   alphas_y, k, it, recursed_cube, result, err, halo>>

\* output = RecursiveFilter.recurse_backwards_y(output, alphas_y.data);
\* cube.data = output; next pass of the for loop
RecurseBackwardsY ==
    /\ pc = "backwards_y"
    /\ output' = recurse_backwards_y(output, alphas_y)
    /\ it' = it + 1
    /\ pc' = "range"
    /\ hist' = Swept
    /\ UNCHANGED <<ctor, self, cube, alphas_x_arg, alphas_y_arg, alphas_x,
                   alphas_y, k, recursed_cube, result, err, halo>>

\* variant: the slice put at the front of the list
prepend_slice(cubelist, new_cube) == <<new_cube>> \o cubelist

\* recursed_cube.append(new_cube)
append_slice(cubelist, new_cube) == Append(cubelist, new_cube)

\* new_cube = remove_halo_from_cube(new_cube, ...); recursed_cube.append(new_cube)
Unpad ==
    /\ pc = "unpad"
    /\ recursed_cube' =
          append_slice(recursed_cube,
                       remove_halo_from_cube(output, self.edge_width,
                                             self.edge_width))
    /\ k' = k + 1
    /\ pc' = "loop"
    /\ hist' = [hist EXCEPT !.ops = Append(@, <<"unpad", k>>)]
    /\ UNCHANGED <<ctor, self, cube, alphas_x_arg, alphas_y_arg, alphas_x,
                   alphas_y, output, it, result, err, halo>>

\* new_cube = recursed_cube.merge_cube();
\* new_cube = check_cube_coordinates(cube, new_cube); return new_cube
Merge ==
    /\ pc = "loop"
    /\ k > Len(cube)
    /\ result' = recursed_cube
    /\ pc' = "returned"
    /\ UNCHANGED <<ctor, self, cube, alphas_x_arg, alphas_y_arg, alphas_x,
                   alphas_y, k, output, it, recursed_cube, err, halo, hist>>

Next ==
    \/ Construct
    \/ Process
    \/ SetAlphasX
    \/ SetAlphasY
    \/ PadSlice
    \/ RunRange
    \/ RecurseForwardX
    \/ RecurseBackwardsX
    \/ RecurseForwardY
    \/ RecurseBackwardsY
    \/ Unpad
    \/ Merge

Spec == Init /\ [][Next]_vars

-----------------------------------------------------------------------------
(* Positions and predicates the properties use *)

PastSetX == pc \notin { "idle", "set_alphas_x" }

PastSetY == pc \notin { "idle", "set_alphas_x", "set_alphas_y" }

InRecursion ==
    pc \in { "range", "forward_x", "backwards_x", "forward_y", "backwards_y",
             "unpad" }

EdgeWidth == self.edge_width

\* every value of the array is 0
AllZero(A) == \A i \in 1..Len(A) : \A j \in 1..Len(A[i]) : A[i][j] = Zero

\* every value of the array is in [0, 1)
AllInUnit(A) ==
    \A i \in 1..Len(A) : \A j \in 1..Len(A[i]) : Zero <= A[i][j] /\ A[i][j] < One

\* every value of the array is in (0, 1)
AllInOpenUnit(A) ==
    \A i \in 1..Len(A) : \A j \in 1..Len(A[i]) : Zero < A[i][j] /\ A[i][j] < One

-----------------------------------------------------------------------------
(* A reference filter, written line by line: a sweep along an axis is the  *)
(* one-dimensional recurrence applied to every line of the grid along that  *)
(* axis.  The x sweeps run along the first index, the y sweeps along the    *)
(* second.                                                                  *)

RECURSIVE Rev(_, _)
Rev(v, i) == IF i < 1 THEN <<>> ELSE <<v[i]>> \o Rev(v, i - 1)

Reverse(v) == Rev(v, Len(v))

RECURSIVE ColFrom(_, _, _)
ColFrom(A, j, r) == IF r > Len(A) THEN <<>> ELSE <<A[r][j]>> \o ColFrom(A, j, r + 1)

RECURSIVE ColsFrom(_, _)
ColsFrom(A, j) ==
    IF j > Len(A[1]) THEN <<>> ELSE <<ColFrom(A, j, 1)>> \o ColsFrom(A, j + 1)

Transpose(A) == ColsFrom(A, 1)

\* B[1] = v[1];  B[i] = (1 - a[i]) * v[i] + a[i] * B[i-1]
RECURSIVE LineFwd(_, _, _, _)
LineFwd(a, v, i, acc) ==
    IF i > Len(v) THEN acc
    ELSE LineFwd(a, v, i + 1,
                 Append(acc, IF i = 1 THEN v[1]
                             ELSE (((One - a[i]) * v[i] + Scale \div 2) \div Scale)
                                  + ((a[i] * acc[i - 1] + Scale \div 2) \div Scale)))

\* B[n] = v[n];  B[i] = (1 - a[i]) * v[i] + a[i] * B[i+1]
LineBwd(a, v) == Reverse(LineFwd(Reverse(a), Reverse(v), 1, <<>>))

RECURSIVE LinesFwd(_, _, _)
LinesFwd(A, al, r) ==
    IF r > Len(A) THEN <<>>
    ELSE <<LineFwd(al[r], A[r], 1, <<>>)>> \o LinesFwd(A, al, r + 1)

RECURSIVE LinesBwd(_, _, _)
LinesBwd(A, al, r) ==
    IF r > Len(A) THEN <<>>
    ELSE <<LineBwd(al[r], A[r])>> \o LinesBwd(A, al, r + 1)

RefForwardY(A, al) == LinesFwd(A, al, 1)

RefBackwardY(A, al) == LinesBwd(A, al, 1)

RefForwardX(A, al) == Transpose(LinesFwd(Transpose(A), Transpose(al), 1))

RefBackwardX(A, al) == Transpose(LinesBwd(Transpose(A), Transpose(al), 1))

RefPass(A, ax, ay) ==
    RefBackwardY(RefForwardY(RefBackwardX(RefForwardX(A, ax), ax), ay), ay)

RECURSIVE RefRun(_, _, _, _)
RefRun(A, ax, ay, n) ==
    IF n = 0 THEN A ELSE RefPass(RefRun(A, ax, ay, n - 1), ax, ay)

\* the padded slice run_recursion was given for slice i
PaddedSlice(i) ==
    Transpose(Transpose(pad_cube_with_halo(cube[i], EdgeWidth, EdgeWidth, halo)))

-----------------------------------------------------------------------------
(* C1: run_recursion returns exactly the grid obtained by `iterations`      *)
(* applications of the full pass forward-x, backward-x, forward-y,          *)
(* backward-y in that order, the x sweeps with the x alpha field and the y  *)
(* sweeps with the y alpha field: after every full pass the array equals    *)
(* that many reference passes over the padded slice, within the first pass  *)
(* it equals the reference sweeps applied in order after each sweep (the    *)
(* first row left as it was by forward-x, the last row by backward-x), and  *)
(* the loop is left only after `iterations` full passes.                    *)
C1_RunRecursionIsKPasses ==
    InRecursion /\ self.iterations # None =>
      LET fx == RefForwardX(PaddedSlice(k), alphas_x)
          bx == RefBackwardX(fx, alphas_x)
          fy == RefForwardY(bx, alphas_y)
      IN /\ pc \in { "range", "unpad" } =>
               output = RefRun(PaddedSlice(k), alphas_x, alphas_y, it)
         /\ pc = "backwards_x" /\ it = 0 =>
               output = fx /\ output[1] = PaddedSlice(k)[1]
         /\ pc = "forward_y" /\ it = 0 =>
               output = bx /\ output[Len(bx)] = fx[Len(fx)]
         /\ pc = "backwards_y" /\ it = 0 => output = fy
         /\ pc = "unpad" => it = self.iterations[1]
         /\ it <= self.iterations[1]
         /\ hist.nsweep = 4 * (k - 1) * self.iterations[1] + 4 * it
                          + CASE pc = "backwards_x" -> 1
                              [] pc = "forward_y" -> 2
                              [] pc = "backwards_y" -> 3
                              [] OTHER -> 0

\* run_recursion has returned after two passes over a padded slice with
\* different x and y alpha fields, and the slice was changed
C1_Witness ==
    /\ pc = "unpad"
    /\ self.iterations = <<2>>
    /\ EdgeWidth = 1
    /\ alphas_x # alphas_y
    /\ output # PaddedSlice(k)
    /\ output # RefRun(PaddedSlice(k), alphas_y, alphas_x, 2)

-----------------------------------------------------------------------------
(* C2: __init__ raises exactly when alpha_x is given and not in [0, 1), or  *)
(* alpha_y is given and not in [0, 1), or iterations is given and below 1;  *)
(* when it raises no attribute has been stored, and otherwise the four      *)
(* arguments are stored as given, None included.                            *)
C2_ConstructValidates ==
    ctor # "new" =>
      LET a == hist.init_args
          out(v) == v # None /\ (v[1] < Zero \/ v[1] >= One)
          bad == \/ out(a.alpha_x)
                 \/ out(a.alpha_y)
                 \/ (a.iterations # None /\ a.iterations[1] < 1)
      IN /\ bad => ctor = "error" /\ err.kind = "ValueError" /\ DOMAIN self = {}
         /\ ~bad => ctor = "ok" /\ self = a

\* a construction rejected for alpha_x = 1 alone, the rest left as None
C2_Witness ==
    /\ ctor = "error"
    /\ hist.init_args.alpha_x = <<One>>
    /\ hist.init_args.alpha_y = None
    /\ hist.init_args.iterations = None

-----------------------------------------------------------------------------
(* C3: every alpha field that reaches a sweep has all its values in [0, 1): *)
(* a supplied alpha field with a value outside [0, 1) is never used by a    *)
(* sweep.                                                                   *)
C3_AlphaFieldsInRange ==
    hist.nsweep > 0 => AllInUnit(alphas_x) /\ AllInUnit(alphas_y)

-----------------------------------------------------------------------------
(* C4 *)

MissingX == self.alpha_x = None /\ alphas_x_arg = None

MissingY == self.alpha_y = None /\ alphas_y_arg = None

NothingFiltered == hist.npad = 0 /\ hist.nsweep = 0 /\ result = None

(* C4 as claimed: once process is past building the alpha fields, a         *)
(* missing alpha on either axis has made it raise the missing-alpha error,  *)
(* with no slice padded, no sweep run and nothing returned (stated for the  *)
(* configurations whose edge width the halo collaborator accepts).          *)
C4_MissingAlphaAlways ==
    PastSetY /\ halo_width_ok(EdgeWidth) /\ (MissingX \/ MissingY) =>
        pc = "raised" /\ err.kind = "MissingAlpha" /\ NothingFiltered

(* C4 as amended: a missing alpha on either axis makes process raise with   *)
(* no slice padded, no sweep run and nothing returned; the error is the     *)
(* missing-alpha error when the x axis is the one missing, and when only    *)
(* the y axis is missing it is the missing-alpha error provided the x alpha *)
(* field was built; otherwise the error of building the x field is raised.  *)
C4_MissingAlphaInAxisOrder ==
    /\ PastSetX /\ MissingX =>
          pc = "raised" /\ err.kind = "MissingAlpha" /\ NothingFiltered
          /\ hist.nset = 1
    /\ PastSetY /\ MissingY =>
          /\ pc = "raised"
          /\ NothingFiltered
          /\ alphas_x # None => err.kind = "MissingAlpha" /\ hist.nset = 2
          /\ alphas_x = None /\ ~MissingX =>
                err.kind \in { "ShapeMismatch", "HaloError" }

\* the y axis alone is missing and process raised the missing-alpha error
\* after the x alpha field had been built
C4_Witness ==
    /\ pc = "raised"
    /\ MissingY
    /\ ~MissingX
    /\ alphas_x # None
    /\ err.kind = "MissingAlpha"

-----------------------------------------------------------------------------
(* C5 *)

WrongShapeX == alphas_x_arg # None /\ Shape(alphas_x_arg) # Shape(cube[1])

WrongShapeY == alphas_y_arg # None /\ Shape(alphas_y_arg) # Shape(cube[1])

(* C5 as claimed: once process is past building the alpha fields, a         *)
(* supplied alpha field of another shape than the slice has made it raise   *)
(* the shape-mismatch error carrying both shapes, before any sweep (stated  *)
(* for the configurations whose edge width the halo collaborator accepts).  *)
C5_ShapeMismatchAlways ==
    PastSetY /\ halo_width_ok(EdgeWidth) /\ (WrongShapeX \/ WrongShapeY) =>
        /\ pc = "raised"
        /\ err.kind = "ShapeMismatch"
        /\ err.data_shape = Shape(cube[1])
        /\ err.alphas_shape \in { Shape(alphas_x_arg), Shape(alphas_y_arg) }
        /\ hist.nsweep = 0

(* C5 as amended: a supplied alpha field of another shape than the slice    *)
(* makes process raise before any sweep; the error is the shape-mismatch    *)
(* error carrying the supplied shape and the slice shape when the x field   *)
(* is the one mismatching, and when only the y field mismatches provided    *)
(* the x alpha field was built; a supplied field of equal shape passes the  *)
(* shape check and is padded and used, also when the scalar alpha is None.  *)
C5_ShapeMismatchInAxisOrder ==
    /\ PastSetX /\ WrongShapeX =>
          /\ pc = "raised"
          /\ err = RaiseShape(Shape(alphas_x_arg), Shape(cube[1]))
          /\ NothingFiltered
    /\ PastSetY /\ WrongShapeY =>
          /\ pc = "raised"
          /\ NothingFiltered
          /\ alphas_x # None =>
                err = RaiseShape(Shape(alphas_y_arg), Shape(cube[1]))
    /\ PastSetX /\ alphas_x_arg # None /\ ~WrongShapeX =>
          IF halo_width_ok(EdgeWidth)
          THEN alphas_x = pad_cube_with_halo(alphas_x_arg, EdgeWidth,
                                             EdgeWidth, halo)
          ELSE pc = "raised" /\ err.kind = "HaloError"
    /\ PastSetY /\ alphas_y_arg # None /\ ~WrongShapeY /\ alphas_x # None =>
          alphas_y = pad_cube_with_halo(alphas_y_arg, EdgeWidth, EdgeWidth, halo)

\* a (3, 3) alpha field against a (2, 3) slice was refused with both shapes
\* reported
C5_Witness ==
    /\ pc = "raised"
    /\ WrongShapeX
    /\ err.kind = "ShapeMismatch"
    /\ err.alphas_shape = WrongShape
    /\ err.data_shape = DataShape

-----------------------------------------------------------------------------
-----------------------------------------------------------------------------
(* C7 *)

\* slice i of the input, padded, filtered and unpadded
FilteredSlice(i) ==
    remove_halo_from_cube(
        RefRun(PaddedSlice(i), alphas_x, alphas_y, self.iterations[1]),
        EdgeWidth, EdgeWidth)

\* pad, run, unpad of slice 1, then of slice 2, ...
ExpectedOp(n) == << <<"pad", "run", "unpad">>[((n - 1) % 3) + 1], ((n - 1) \div 3) + 1 >>

(* C7: process pads, filters and unpads each slice exactly once, in the     *)
(* input's slice order; the list handed to the merge holds one slice per    *)
(* input slice, in that order, each of the shape of its input slice and     *)
(* each the filtered input slice; set_alphas is called once per axis,       *)
(* before the first slice is padded, and the two padded alpha fields stay   *)
(* as built for every slice.                                                *)
C7_EachSliceOnceInOrder ==
    /\ \A n \in 1..Len(hist.ops) : hist.ops[n] = ExpectedOp(n)
    /\ hist.nset <= 2
    /\ hist.npad > 0 => hist.nset = 2
    /\ PastSetY /\ pc # "raised" => hist.nset = 2
    /\ pc \in { "range", "unpad", "returned" } =>
          /\ alphas_x = set_alphas(cube[1], self.alpha_x, alphas_x_arg,
                                   EdgeWidth, halo).value
          /\ alphas_y = set_alphas(cube[1], self.alpha_y, alphas_y_arg,
                                   EdgeWidth, halo).value
    /\ InRecursion =>
          Shape(alphas_x) = Shape(output) /\ Shape(alphas_y) = Shape(output)
    /\ \A i \in 1..Len(recursed_cube) : Shape(recursed_cube[i]) = Shape(cube[i])
    /\ pc = "loop" =>
          /\ Len(recursed_cube) = k - 1
          /\ Len(hist.ops) = 3 * (k - 1)
          /\ k > 1 => recursed_cube[k - 1] = FilteredSlice(k - 1)
    /\ pc = "returned" =>
          /\ Len(hist.ops) = 3 * Len(cube)
          /\ hist.npad = Len(cube)
          /\ Len(result) = Len(cube)
          /\ result = recursed_cube
          /\ \A i \in 1..Len(cube) : result[i] = FilteredSlice(i)

\* a field of two different slices was filtered with non-zero alphas and a
\* halo, and returned
C7_Witness ==
    /\ pc = "returned"
    /\ Len(cube) = 2
    /\ cube[1] # cube[2]
    /\ result[1] # result[2]
    /\ result # cube
    /\ EdgeWidth = 1

-----------------------------------------------------------------------------
(* C8: a negative edge_width makes __init__ raise, so every configuration   *)
(* that is constructed has edge_width >= 0.                                 *)
C8_EdgeWidthValidated ==
    /\ ctor # "new" /\ hist.init_args.edge_width < 0 => ctor = "error"
    /\ ctor = "ok" => self.edge_width >= 0

-----------------------------------------------------------------------------
(* C9 *)

\* the grid holds exactly one non-zero cell, at (r, c)
ImpulseAt(A, r, c) ==
    \A i \in 1..Len(A) : \A j \in 1..Len(A[i]) :
        (A[i][j] # Zero) <=> (i = r /\ j = c)

(* C9: with every y alpha 0 and every x alpha in (0, 1), filtering a slice  *)
(* that holds a single impulse changes only cells of the impulse's own row  *)
(* of the [row, col] = (y, x) grid: every cell of every other row of the    *)
(* returned slice is 0.                                                     *)
C9_AlphaXSmoothsAlongRow ==
    pc = "returned" /\ AllZero(alphas_y)
                    /\ AllInOpenUnit(alphas_x) =>
        \A s \in 1..Len(cube) :
          \A r \in 1..DataShape[1], c \in 1..DataShape[2] :
            ImpulseAt(cube[s], r, c) =>
              \A i \in 1..DataShape[1], j \in 1..DataShape[2] :
                i # r => result[s][i][j] = Zero

-----------------------------------------------------------------------------
(* C10 *)

IterationsNone == self.iterations = None

Finished == pc \in { "raised", "returned" }

(* C10 as claimed: every process call on a configuration whose iterations   *)
(* is None ends in the iteration loop raising an undocumented error, with   *)
(* both alpha fields built, the first slice padded, no sweep run and no     *)
(* field returned; process returns only when iterations is an integer >= 1. *)
C10_NoneIterationsFailInLoop ==
    /\ Finished /\ IterationsNone /\ halo_width_ok(EdgeWidth) =>
          /\ pc = "raised"
          /\ err.kind = "TypeError"
          /\ alphas_x # None /\ alphas_y # None
          /\ hist.npad = 1 /\ hist.nsweep = 0
          /\ result = None
    /\ pc = "returned" => ~IterationsNone /\ self.iterations[1] >= 1

(* C10 as amended: every process call on a configuration whose iterations   *)
(* is None fails, with no sweep run and no field returned: a call whose two *)
(* alpha fields are built pads the first slice and then the iteration loop  *)
(* raises an undocumented error; a call whose alpha fields are not both     *)
(* built fails in set_alphas before any slice is padded.  process returns   *)
(* only when iterations is an integer >= 1.                                 *)
C10_NoneIterationsAlwaysFail ==
    /\ ctor = "ok" /\ IterationsNone =>
          /\ pc # "returned" /\ result = None
          /\ hist.nsweep = 0 /\ hist.npad <= 1
          /\ pc \notin { "forward_x", "backwards_x", "forward_y",
                         "backwards_y", "unpad" }
    /\ Finished /\ IterationsNone /\ alphas_x # None /\ alphas_y # None =>
          /\ pc = "raised"
          /\ err.kind = "TypeError"
          /\ hist.npad = 1 /\ hist.nset = 2
    /\ Finished /\ IterationsNone /\ (alphas_x = None \/ alphas_y = None) =>
          /\ pc = "raised"
          /\ err.kind \in { "MissingAlpha", "ShapeMismatch", "HaloError" }
          /\ hist.npad = 0
    /\ pc = "returned" => ~IterationsNone /\ self.iterations[1] >= 1

\* the iteration loop raised on iterations = None after the first slice
\* was padded
C10_Witness ==
    /\ pc = "raised"
    /\ IterationsNone
    /\ err.kind = "TypeError"
    /\ hist.npad = 1
    /\ Len(cube) = 2

====
